---- MODULE Spec2Model ----
(***************************************************************************)
(* PPO vision networks of brax: the CNN and VisionMLP modules              *)
(* (networks_cnn.py) and the policy / value network factories, their       *)
(* init / apply closures and the inference function (vision_networks.py).  *)
(*                                                                         *)
(* Tensors are symbolic: a tensor is its shape, the identity of the data   *)
(* it was computed from and the list of operations applied to it, in the   *)
(* order the code applies them.  An observation is a Python mapping, kept  *)
(* as the sequence of its (key, value) items in iteration order.           *)
(*                                                                         *)
(* vision_networks.py imports VisionMLP from the module cnn_networks; the  *)
(* class modelled is the VisionMLP of networks_cnn.py.  assert statements  *)
(* are taken to run (the interpreter is not started with -O).              *)
(***************************************************************************)
EXTENDS Integers, Sequences, FiniteSets, TLC

\* networks: the networks the caller holds; made: the factory call that returned
\* them; last: the last call, its arguments and what it returned or raised.
VARIABLES networks, made, last

vars == <<networks, made, last>>

(***************************************************************************)
(* Bounds of the model.                                                    *)
(***************************************************************************)
MaxKeys == 3
MaxLayers == 3
MaxObsKeys == 2

(***************************************************************************)
(* Sequences and mappings.                                                 *)
(***************************************************************************)
Min(a, b) == IF a <= b THEN a ELSE b

RECURSIVE SumSeq(_)
SumSeq(s) == IF s = <<>> THEN 0 ELSE Head(s) + SumSeq(Tail(s))

\* Sequences over S of length at most n.
SeqsUpTo(S, n) == UNION {[1..m -> S] : m \in 0..n}

\* str.startswith
StartsWith(s, prefix) ==
    Len(s) >= Len(prefix) /\ SubSeq(s, 1, Len(prefix)) = prefix

Item(k, v) == [key |-> k, val |-> v]

DictKeys(d) == [i \in 1..Len(d) |-> d[i].key]

HasKey(d, k) == \E i \in 1..Len(d) : d[i].key = k

Get(d, k) == d[CHOOSE i \in 1..Len(d) : d[i].key = k].val

\* The mappings with pairwise different keys among K, at most n of them, in
\* every iteration order, the value of key k being V[k].
Dicts(K, n, V) ==
    {[i \in 1..Len(ks) |-> Item(ks[i], V[ks[i]])] :
        ks \in {s \in SeqsUpTo(K, n) :
                  \A i, j \in 1..Len(s) : i # j => s[i] # s[j]}}

(***************************************************************************)
(* Tensors and the operations of the numerical library.                    *)
(***************************************************************************)
OpRec(op, feat, kernel, stride, fn, p) ==
    [op |-> op, feat |-> feat, kernel |-> kernel, stride |-> stride,
     fn |-> fn, p |-> p]

Tensor(shape, data) == [shape |-> shape, data |-> data, ops |-> <<>>]

Applied(x, shape, o) == [shape |-> shape, data |-> x.data, ops |-> Append(x.ops, o)]

CeilDiv(a, b) == (a + b - 1) \div b

\* linen.Conv on a channels-last image, default padding 'SAME'.
ConvShape(shape, num_filter, stride) ==
    [i \in 1..Len(shape) |->
        IF i = Len(shape) THEN num_filter
        ELSE IF i = Len(shape) - 1 THEN CeilDiv(shape[i], stride[2])
        ELSE IF i = Len(shape) - 2 THEN CeilDiv(shape[i], stride[1])
        ELSE shape[i]]

Conv(num_filter, kernel_size, stride, use_bias, x) ==
    Applied(x, ConvShape(x.shape, num_filter, stride),
            OpRec("conv", num_filter, kernel_size, stride,
                  IF use_bias THEN "bias" ELSE "no_bias", ""))

Activation(fn, x) == Applied(x, x.shape, OpRec("activation", 0, <<>>, <<>>, fn, ""))

\* jp.mean(x, axis=(-2, -3))
SpatialMean(x) ==
    Applied(x, SubSeq(x.shape, 1, Len(x.shape) - 3) \o <<x.shape[Len(x.shape)]>>,
            OpRec("mean", 0, <<>>, <<>>, "", ""))

(***************************************************************************)
(* networks_cnn.CNN                                                        *)
(***************************************************************************)
CNNModule(num_filters, kernel_sizes, strides, activation, use_bias) ==
    [num_filters |-> num_filters, kernel_sizes |-> kernel_sizes,
     strides |-> strides, activation |-> activation, use_bias |-> use_bias]

\* zip(self.num_filters, self.kernel_sizes, self.strides) stops with the
\* shortest of the three.
ZipLen(self) ==
    Min(Len(self.num_filters), Min(Len(self.kernel_sizes), Len(self.strides)))

CNNLayer(self, i, hidden) ==
    Activation(self.activation,
               Conv(self.num_filters[i], self.kernel_sizes[i], self.strides[i],
                    self.use_bias, hidden))

RECURSIVE CNNLoop(_, _, _)
CNNLoop(self, i, hidden) ==
    IF i > ZipLen(self) THEN hidden
    ELSE CNNLoop(self, i + 1, CNNLayer(self, i, hidden))

CNN(self, data) == CNNLoop(self, 1, data)

(***************************************************************************)
(* networks_cnn.VisionMLP                                                  *)
(***************************************************************************)
VisionMLPModule(layer_sizes, activation, kernel_init, activate_final, layer_norm, normalise_channels) ==
    [layer_sizes |-> layer_sizes, activation |-> activation,
     kernel_init |-> kernel_init, activate_final |-> activate_final,
     layer_norm |-> layer_norm, normalise_channels |-> normalise_channels]

\* One LayerNorm without bias and scale per channel over the 2D image, the
\* channels stacked again on the last axis.
LnPerChan(v) ==
    Applied(v, v.shape,
            OpRec("layernorm_per_chan", v.shape[Len(v.shape)], <<>>, <<>>, "", ""))

\* Mutant of IsPixelsKey: the prefix without its slash.
IsPixelsKey_NoSlash(key) == StartsWith(key, "pixels")

IsPixelsKey(key) == StartsWith(key, "pixels/")

PixelsOf(data) == SelectSeq(data, LAMBDA e : IsPixelsKey(e.key))

NormalisedPixels(px) == [i \in 1..Len(px) |-> Item(px[i].key, LnPerChan(px[i].val))]

\* Mutant of PixelsHidden: normalise_channels is not consulted.
PixelsHidden_AlwaysNormalise(self, data) == NormalisedPixels(PixelsOf(data))

PixelsHidden(self, data) ==
    IF self.normalise_channels THEN NormalisedPixels(PixelsOf(data)) ELSE PixelsOf(data)

\* Mutant of NatureCNN: use_bias left at the default of CNN.
NatureCNN_DefaultBias ==
    CNNModule(<<32, 64, 64>>, <<(<<8, 8>>), (<<4, 4>>), (<<3, 3>>)>>,
              <<(<<4, 4>>), (<<2, 2>>), (<<1, 1>>)>>, "relu", TRUE)

NatureCNN ==
    CNNModule(<<32, 64, 64>>, <<(<<8, 8>>), (<<4, 4>>), (<<3, 3>>)>>,
              <<(<<4, 4>>), (<<2, 2>>), (<<1, 1>>)>>, "relu", FALSE)

\* cnn_outs = [natureCNN()(pixels_hidden[key]) for key in pixels_hidden.keys()]
NatureCNNOuts(pixels_hidden) ==
    [i \in 1..Len(pixels_hidden) |-> CNN(NatureCNN, pixels_hidden[i].val)]

\* cnn_outs = [jp.mean(cnn_out, axis=(-2, -3)) for cnn_out in cnn_outs]
SpatialMeans(cnn_outs) == [i \in 1..Len(cnn_outs) |-> SpatialMean(cnn_outs[i])]

AppendState(data, cnn_outs) ==
    IF HasKey(data, "state") THEN Append(cnn_outs, Get(data, "state")) ELSE cnn_outs

CnnOuts(self, data) ==
    AppendState(data, SpatialMeans(NatureCNNOuts(PixelsHidden(self, data))))

\* jp.concatenate(cnn_outs, axis=-1)
Concatenate(parts) ==
    [shape |-> SubSeq(parts[1].shape, 1, Len(parts[1].shape) - 1)
               \o <<SumSeq([i \in 1..Len(parts) |-> parts[i].shape[Len(parts[i].shape)]])>>,
     parts |-> parts]

\* networks.MLP: one Dense layer per entry of layer_sizes.
MLP(self, hidden) ==
    [error |-> "",
     shape |-> IF self.layer_sizes = <<>> THEN hidden.shape
               ELSE SubSeq(hidden.shape, 1, Len(hidden.shape) - 1)
                    \o <<self.layer_sizes[Len(self.layer_sizes)]>>,
     parts |-> hidden.parts,
     input_size |-> hidden.shape[Len(hidden.shape)],
     mlp |-> <<[layer_sizes |-> self.layer_sizes, activation |-> self.activation,
                kernel_init |-> self.kernel_init,
                activate_final |-> self.activate_final,
                layer_norm |-> self.layer_norm]>>]

\* jp.concatenate of an empty list raises.
ConcatError ==
    [error |-> "ValueError", shape |-> <<>>, parts |-> <<>>, input_size |-> 0,
     mlp |-> <<>>]

ConcatAndHead(self, cnn_outs) ==
    IF cnn_outs = <<>> THEN ConcatError ELSE MLP(self, Concatenate(cnn_outs))

VisionMLP(self, data) == ConcatAndHead(self, CnnOuts(self, data))

(***************************************************************************)
(* vision_networks: the library objects the factories are wired to.        *)
(***************************************************************************)
\* distribution.NormalTanhDistribution(event_size): a loc and a scale per
\* action dimension.
NormalTanhDistribution(event_size) ==
    [name |-> "NormalTanhDistribution", event_size |-> event_size,
     param_size |-> 2 * event_size]

NoDistribution == [name |-> "None", event_size |-> 0, param_size |-> 0]

\* networks.FeedForwardNetwork(init=lambda key: module.init(key, dummy_obs),
\*                             apply=apply)
\* with what the two closures capture; squeeze tells the value apply from the
\* policy apply.
FeedForwardNetwork(module, preprocess_observations_fn, dummy_obs, squeeze) ==
    [built |-> TRUE, module |-> module,
     preprocess_observations_fn |-> preprocess_observations_fn,
     dummy_obs |-> dummy_obs, squeeze |-> squeeze,
     init_params |-> <<"key">>,
     apply_params |-> <<"processor_params", "policy_params", "obs">>]

NoNetwork == [built |-> FALSE]

\* Mutant of DummyObs: zeros of the shape itself, without the batch axis.
DummyObs_NoBatchAxis(observation_size) ==
    [i \in 1..Len(observation_size) |->
        Item(observation_size[i].key, Tensor(observation_size[i].val, "zeros"))]

\* jp.zeros((1,) + shape) for every item of observation_size, a plain dict.
DummyObs(observation_size) ==
    [i \in 1..Len(observation_size) |->
        Item(observation_size[i].key,
             Tensor(<<1>> \o observation_size[i].val, "zeros"))]

Raised(error, message) ==
    [error |-> error, message |-> message, built |-> <<>>, network |-> NoNetwork]

Returned(built, network) ==
    [error |-> "", message |-> "", built |-> built, network |-> network]

(***************************************************************************)
(* make_vision_policy_network, make_vision_value_network                   *)
(***************************************************************************)
make_vision_policy_network(a) ==
    IF a.network_type = "cnn"
    THEN Returned(<<"module", "dummy_obs", "FeedForwardNetwork">>,
                  FeedForwardNetwork(
                      VisionMLPModule(a.hidden_layer_sizes \o <<a.output_size>>,
                                      a.activation, a.kernel_init, FALSE,
                                      a.layer_norm, a.normalise_channels),
                      a.preprocess_observations_fn,
                      DummyObs(a.observation_size), FALSE))
    ELSE Raised("ValueError", "Unsupported network_type: " \o a.network_type)

\* Mutant of make_vision_value_network: network_type is not checked.
make_vision_value_network_NoGuard(a) ==
    Returned(<<"module", "dummy_obs", "FeedForwardNetwork">>,
             FeedForwardNetwork(
                 VisionMLPModule(a.hidden_layer_sizes \o <<1>>,
                                 a.activation, a.kernel_init, FALSE,
                                 FALSE, a.normalise_channels),
                 a.preprocess_observations_fn,
                 DummyObs(a.observation_size), TRUE))

make_vision_value_network(a) ==
    IF a.network_type = "cnn"
    THEN Returned(<<"module", "dummy_obs", "FeedForwardNetwork">>,
                  FeedForwardNetwork(
                      VisionMLPModule(a.hidden_layer_sizes \o <<1>>,
                                      a.activation, a.kernel_init, FALSE,
                                      FALSE, a.normalise_channels),
                      a.preprocess_observations_fn,
                      DummyObs(a.observation_size), TRUE))
    ELSE Raised("ValueError", "Unsupported network_type: " \o a.network_type)

(***************************************************************************)
(* The apply and init closures.                                            *)
(***************************************************************************)
Call(fn, args) == [fn |-> fn, args |-> args]

\* An observation object: its Python type and its items.
Obs(type, items) == [type |-> type, items |-> items]

\* Mutant of IsInstanceFrozenDict: any mapping passes.
IsInstanceMapping(obs) == obs.type \in {"FrozenDict", "dict"}

IsInstanceFrozenDict(obs) == obs.type = "FrozenDict"

\* preprocess_observations_fn(observation, processor_params); the default,
\* types.identity_observation_preprocessor, returns the observation.
Preprocess(fn, x, processor_params) ==
    IF fn = "identity_observation_preprocessor" THEN x
    ELSE Applied(x, x.shape, OpRec("preprocess", 0, <<>>, <<>>, fn, processor_params))

\* Mutant of FrozenDictCopy: the entry is replaced in the receiver itself.
FrozenDictCopy_InPlace(obs, key, val) ==
    [self |-> Obs("FrozenDict",
                  [i \in 1..Len(obs.items) |->
                      IF obs.items[i].key = key THEN Item(key, val) ELSE obs.items[i]]),
     new |-> Obs("FrozenDict",
                 [i \in 1..Len(obs.items) |->
                     IF obs.items[i].key = key THEN Item(key, val) ELSE obs.items[i]])]

\* FrozenDict.copy(add_or_replace): a new FrozenDict of {**self, **add_or_replace};
\* self is what the receiver holds afterwards, new is what is returned.
FrozenDictCopy(obs, key, val) ==
    [self |-> obs,
     new |-> Obs("FrozenDict",
                 IF HasKey(obs.items, key)
                 THEN [i \in 1..Len(obs.items) |->
                          IF obs.items[i].key = key THEN Item(key, val) ELSE obs.items[i]]
                 ELSE Append(obs.items, Item(key, val)))]

\* module.apply(variables, data) and module.init(key, data) run
\* VisionMLP.__call__ on data.
WithVariables(r, variables) ==
    [error |-> r.error, shape |-> r.shape, parts |-> r.parts,
     input_size |-> r.input_size, mlp |-> r.mlp, variables |-> variables,
     post |-> <<>>]

ModuleRun(module, variables, data) == WithVariables(VisionMLP(module, data), variables)

\* Mutant of Squeeze: the trailing axis is kept.
Squeeze_Omitted(x) == x

\* jp.squeeze(x, axis=-1)
Squeeze(x) ==
    IF x.shape = <<>> \/ x.shape[Len(x.shape)] # 1
    THEN [x EXCEPT !.error = "ValueError"]
    ELSE [x EXCEPT !.shape = SubSeq(x.shape, 1, Len(x.shape) - 1),
                   !.post = Append(@, "squeeze")]

ApplyResult(error, calls, out, caller_obs) ==
    [error |-> error, calls |-> calls, out |-> out, caller_obs |-> caller_obs]

NoOutput ==
    [error |-> "", shape |-> <<>>, parts |-> <<>>, input_size |-> 0, mlp |-> <<>>,
     variables |-> "", post |-> <<>>]

\* if 'state' in obs:
\*   obs = obs.copy({'state': preprocess_observations_fn(obs['state'], processor_params)})
\* self is the caller's object afterwards, new the object the name obs is bound to.
PreprocessState(net, processor_params, obs) ==
    IF HasKey(obs.items, "state")
    THEN FrozenDictCopy(obs, "state",
                        Preprocess(net.preprocess_observations_fn,
                                   Get(obs.items, "state"), processor_params))
    ELSE [self |-> obs, new |-> obs]

PreprocessCalls(processor_params, obs) ==
    IF HasKey(obs.items, "state")
    THEN <<Call("preprocess_observations_fn",
                <<Get(obs.items, "state"), processor_params>>)>>
    ELSE <<>>

ModuleApplied(calls, out, caller_obs) == ApplyResult(out.error, calls, out, caller_obs)

\* return module.apply(policy_params, obs)
ApplyModule(net, policy_params, pre_calls, bound) ==
    ModuleApplied(Append(pre_calls, Call("module.apply", <<policy_params, bound.new>>)),
                  ModuleRun(net.module, policy_params, bound.new.items),
                  bound.self)

\* The part the two apply closures share: the assertion, the replacement of
\* the 'state' entry and the call of the module.
ApplyBody(net, processor_params, policy_params, obs) ==
    IF ~IsInstanceFrozenDict(obs)
    THEN ApplyResult("AssertionError", <<>>, NoOutput, obs)
    ELSE ApplyModule(net, policy_params, PreprocessCalls(processor_params, obs),
                     PreprocessState(net, processor_params, obs))

policy_apply(net, processor_params, policy_params, obs) ==
    ApplyBody(net, processor_params, policy_params, obs)

Squeezed(r, sq) == ApplyResult(sq.error, r.calls, sq, r.caller_obs)

SqueezeOutput(r) == IF r.error # "" THEN r ELSE Squeezed(r, Squeeze(r.out))

value_apply(net, processor_params, policy_params, obs) ==
    SqueezeOutput(ApplyBody(net, processor_params, policy_params, obs))

network_apply(net, processor_params, policy_params, obs) ==
    IF net.squeeze THEN value_apply(net, processor_params, policy_params, obs)
    ELSE policy_apply(net, processor_params, policy_params, obs)

\* init = lambda key: module.init(key, dummy_obs)
ModuleInitialised(key, dummy, out) ==
    ApplyResult(out.error, <<Call("module.init", <<key, dummy>>)>>, out, dummy)

network_init(net, key) ==
    ModuleInitialised(key, Obs("dict", net.dummy_obs),
                      ModuleRun(net.module, key, net.dummy_obs))

(***************************************************************************)
(* make_vision_ppo_networks                                                *)
(***************************************************************************)
PPONetworks(policy_network, value_network, parametric_action_distribution) ==
    [policy_network |-> policy_network, value_network |-> value_network,
     parametric_action_distribution |-> parametric_action_distribution]

NoNetworks == PPONetworks(NoNetwork, NoNetwork, NoDistribution)

\* The default values of the parameters make_vision_ppo_networks does not pass on.
PolicyArgs(network_type, observation_size, output_size, preprocess_observations_fn, hidden_layer_sizes, activation, layer_norm, normalise_channels) ==
    [network_type |-> network_type, observation_size |-> observation_size,
     output_size |-> output_size,
     preprocess_observations_fn |-> preprocess_observations_fn,
     hidden_layer_sizes |-> hidden_layer_sizes, activation |-> activation,
     kernel_init |-> "lecun_uniform", layer_norm |-> layer_norm,
     normalise_channels |-> normalise_channels]

ValueArgs(network_type, observation_size, preprocess_observations_fn, hidden_layer_sizes, activation, normalise_channels) ==
    [network_type |-> network_type, observation_size |-> observation_size,
     preprocess_observations_fn |-> preprocess_observations_fn,
     hidden_layer_sizes |-> hidden_layer_sizes, activation |-> activation,
     kernel_init |-> "lecun_uniform", normalise_channels |-> normalise_channels]

PPONetworkType == "cnn"

PPOResult(policy, value, parametric_action_distribution) ==
    IF policy.error # ""
    THEN [error |-> policy.error, message |-> policy.message, networks |-> NoNetworks]
    ELSE IF value.error # ""
    THEN [error |-> value.error, message |-> value.message, networks |-> NoNetworks]
    ELSE [error |-> "", message |-> "",
          networks |-> PPONetworks(policy.network, value.network,
                                   parametric_action_distribution)]

PPOWith(a, parametric_action_distribution) ==
    PPOResult(make_vision_policy_network(
                  PolicyArgs(PPONetworkType, a.observation_size,
                             parametric_action_distribution.param_size,
                             a.preprocess_observations_fn,
                             a.policy_hidden_layer_sizes, a.activation, FALSE,
                             a.normalise_channels)),
              make_vision_value_network(
                  ValueArgs(PPONetworkType, a.observation_size,
                            a.preprocess_observations_fn,
                            a.value_hidden_layer_sizes, a.activation,
                            a.normalise_channels)),
              parametric_action_distribution)

make_vision_ppo_networks(a) == PPOWith(a, NormalTanhDistribution(a.action_size))

(***************************************************************************)
(* make_inference_fn                                                       *)
(***************************************************************************)
\* A value computed by the parametric action distribution from its arguments.
DistTerm(fn, logits, raw, key) == [fn |-> fn, logits |-> logits, raw |-> raw, key |-> key]

Mode(logits) == DistTerm("mode", <<logits>>, <<>>, "")

SampleNoPostprocessing(logits, key) ==
    DistTerm("sample_no_postprocessing", <<logits>>, <<>>, key)

LogProb(logits, raw_actions) == DistTerm("log_prob", <<logits>>, <<raw_actions>>, "")

Postprocess(raw_actions) == DistTerm("postprocess", <<>>, <<raw_actions>>, "")

NoAction == DistTerm("none", <<>>, <<>>, "")

PolicyResult(error, calls, action, extras) ==
    [error |-> error, calls |-> calls, action |-> action, extras |-> extras]

\* Mutant of Sampled: the log-probability of the post-processed actions.
Sampled_LogProbOfPostprocessed(apply_call, logits, key_sample, raw_actions) ==
    PolicyResult("",
                 <<apply_call,
                   Call("sample_no_postprocessing", <<logits, key_sample>>),
                   Call("postprocess", <<raw_actions>>),
                   Call("log_prob", <<logits, Postprocess(raw_actions)>>)>>,
                 Postprocess(raw_actions),
                 <<Item("log_prob", LogProb(logits, Postprocess(raw_actions))),
                   Item("raw_action", raw_actions)>>)

\* The branch of policy that samples.
Sampled(apply_call, logits, key_sample, raw_actions) ==
    PolicyResult("",
                 <<apply_call,
                   Call("sample_no_postprocessing", <<logits, key_sample>>),
                   Call("log_prob", <<logits, raw_actions>>),
                   Call("postprocess", <<raw_actions>>)>>,
                 Postprocess(raw_actions),
                 <<Item("log_prob", LogProb(logits, raw_actions)),
                   Item("raw_action", raw_actions)>>)

\* The branch of policy taken when deterministic.
Deterministic(apply_call, logits) ==
    PolicyResult("", <<apply_call, Call("mode", <<logits>>)>>, Mode(logits), <<>>)

\* Mutant of PolicyOn: deterministic is not consulted.
PolicyOn_IgnoresDeterministic(deterministic, key_sample, apply_call, applied) ==
    IF applied.error # ""
    THEN PolicyResult(applied.error, <<apply_call>>, NoAction, <<>>)
    ELSE Sampled(apply_call, applied.out, key_sample,
                 SampleNoPostprocessing(applied.out, key_sample))

PolicyOn(deterministic, key_sample, apply_call, applied) ==
    IF applied.error # ""
    THEN PolicyResult(applied.error, <<apply_call>>, NoAction, <<>>)
    ELSE IF deterministic THEN Deterministic(apply_call, applied.out)
    ELSE Sampled(apply_call, applied.out, key_sample,
                 SampleNoPostprocessing(applied.out, key_sample))

\* make_inference_fn(ppo_networks)(params, deterministic)(observations, key_sample)
policy(ppo_networks, params, deterministic, observations, key_sample) ==
    PolicyOn(deterministic, key_sample,
             Call("policy_network.apply", <<params[1], params[2], observations>>),
             network_apply(ppo_networks.policy_network, params[1], params[2],
                           observations))

(***************************************************************************)
(* The inputs the operations are called with.                              *)
(***************************************************************************)
\* Observation entries: an image per camera, the flat state, and entries the
\* networks do not name.
ShapeOf(key) ==
    CASE key = "state" -> <<4>>
      [] key = "states" -> <<6>>
      [] key = "privileged_state" -> <<6>>
      [] OTHER -> <<64, 64, 3>>

ObsTensor(key) == Tensor(<<2>> \o ShapeOf(key), key)

VisionKeys == {"pixels/view_0", "pixels/view_1", "state", "pixels", "states"}

ObsKeys == {"pixels/view_0", "state", "privileged_state"}

SizeKeys == {"pixels/view_0", "state"}

VisionData == Dicts(VisionKeys, MaxKeys, [k \in VisionKeys |-> ObsTensor(k)])

Observations ==
    {Obs(type, items) : type \in {"FrozenDict", "dict"},
                        items \in Dicts(ObsKeys, MaxObsKeys, [k \in ObsKeys |-> ObsTensor(k)])}

ObservationSizes == Dicts(SizeKeys, MaxObsKeys, [k \in SizeKeys |-> ShapeOf(k)])

NetworkTypes == {"cnn", "mlp", "CNN", ""}

PreprocessFns == {"identity_observation_preprocessor", "normalize"}

\* hidden_layer_sizes and normalise_channels, varied together.
LayerOptions == {<<(<<256, 256>>), FALSE>>, <<(<<64>>), TRUE>>}

\* policy_hidden_layer_sizes, value_hidden_layer_sizes, normalise_channels and
\* action_size, varied together.
PPOOptions == {<<(<<256, 256>>), (<<256, 256>>), FALSE, 1>>, <<(<<32>>), (<<>>), TRUE, 3>>}

ProcessorParams == {"processor_params_0", "processor_params_1"}

PolicyParams == {"policy_params_0"}

InferenceParams == {<<"processor_params_1", "policy_params_0">>}

PRNGKeys == {"key_0", "key_1"}

PolicyArgsSet ==
    {PolicyArgs(t, os, 4, f, o[1], "swish", FALSE, o[2]) :
        t \in NetworkTypes, os \in ObservationSizes, f \in PreprocessFns,
        o \in LayerOptions}

ValueArgsSet ==
    {ValueArgs(t, os, f, o[1], "swish", o[2]) :
        t \in NetworkTypes, os \in ObservationSizes, f \in PreprocessFns,
        o \in LayerOptions}

PPOArgsSet ==
    {[observation_size |-> os, action_size |-> o[4],
      preprocess_observations_fn |-> f,
      policy_hidden_layer_sizes |-> o[1], value_hidden_layer_sizes |-> o[2],
      activation |-> "swish", normalise_channels |-> o[3]] :
        os \in ObservationSizes, f \in PreprocessFns, o \in PPOOptions}

CNNModules ==
    {CNNModule(nf, ks, st, act, b) :
        nf \in SeqsUpTo({32, 64}, MaxLayers),
        ks \in SeqsUpTo({<<3, 3>>, <<8, 8>>}, MaxLayers),
        st \in SeqsUpTo({<<1, 1>>, <<2, 2>>}, MaxLayers),
        act \in {"relu", "swish"}, b \in BOOLEAN}

VisionMLPModules ==
    {VisionMLPModule(ls, act, "lecun_uniform", FALSE, FALSE, n) :
        ls \in {<<256, 256, 4>>, <<1>>}, act \in {"relu", "swish"}, n \in BOOLEAN}

(***************************************************************************)
(* Spec: the networks are made once and then used.                         *)
(***************************************************************************)
Done(op, args, result) == [op |-> op, args |-> args, result |-> result]

Init ==
    /\ networks = NoNetworks
    /\ made = Done("none", <<>>, <<>>)
    /\ last = Done("none", <<>>, <<>>)

\* A factory that raises returns nothing: the caller holds what it held.
MakeVisionPolicyNetwork ==
    /\ networks = NoNetworks
    /\ \E a \in PolicyArgsSet :
          \E r \in {make_vision_policy_network(a)} :
              /\ last' = Done("make_vision_policy_network", a, r)
              /\ networks' = IF r.error = ""
                             THEN PPONetworks(r.network, NoNetwork, NoDistribution)
                             ELSE networks
              /\ made' = IF r.error = "" THEN Done("make_vision_policy_network", a, r) ELSE made

MakeVisionValueNetwork ==
    /\ networks = NoNetworks
    /\ \E a \in ValueArgsSet :
          \E r \in {make_vision_value_network(a)} :
              /\ last' = Done("make_vision_value_network", a, r)
              /\ networks' = IF r.error = ""
                             THEN PPONetworks(NoNetwork, r.network, NoDistribution)
                             ELSE networks
              /\ made' = IF r.error = "" THEN Done("make_vision_value_network", a, r) ELSE made

MakeVisionPPONetworks ==
    /\ networks = NoNetworks
    /\ \E a \in PPOArgsSet :
          \E r \in {make_vision_ppo_networks(a)} :
              /\ last' = Done("make_vision_ppo_networks", a, r)
              /\ networks' = IF r.error = "" THEN r.networks ELSE networks
              /\ made' = IF r.error = "" THEN Done("make_vision_ppo_networks", a, r) ELSE made

PolicyNetworkInit ==
    /\ networks.policy_network.built
    /\ \E key \in PRNGKeys :
          last' = Done("policy_network.init", <<key>>,
                       network_init(networks.policy_network, key))
    /\ UNCHANGED <<networks, made>>

ValueNetworkInit ==
    /\ networks.value_network.built
    /\ \E key \in PRNGKeys :
          last' = Done("value_network.init", <<key>>,
                       network_init(networks.value_network, key))
    /\ UNCHANGED <<networks, made>>

PolicyNetworkApply ==
    /\ networks.policy_network.built
    /\ \E pp \in ProcessorParams, theta \in PolicyParams, obs \in Observations :
          last' = Done("policy_network.apply", <<pp, theta, obs>>,
                       network_apply(networks.policy_network, pp, theta, obs))
    /\ UNCHANGED <<networks, made>>

ValueNetworkApply ==
    /\ networks.value_network.built
    /\ \E pp \in ProcessorParams, theta \in PolicyParams, obs \in Observations :
          last' = Done("value_network.apply", <<pp, theta, obs>>,
                       network_apply(networks.value_network, pp, theta, obs))
    /\ UNCHANGED <<networks, made>>

Policy ==
    /\ networks.policy_network.built
    /\ networks.parametric_action_distribution.name # "None"
    /\ \E params \in InferenceParams, deterministic \in BOOLEAN,
          obs \in Observations, key \in PRNGKeys :
          last' = Done("policy",
                       [params |-> params, deterministic |-> deterministic,
                        observations |-> obs, key_sample |-> key],
                       policy(networks, params, deterministic, obs, key))
    /\ UNCHANGED <<networks, made>>

Next ==
    \/ MakeVisionPolicyNetwork
    \/ MakeVisionValueNetwork
    \/ MakeVisionPPONetworks
    \/ PolicyNetworkInit
    \/ ValueNetworkInit
    \/ PolicyNetworkApply
    \/ ValueNetworkApply
    \/ Policy

Spec == Init /\ [][Next]_vars

(***************************************************************************)
(* SpecModules: CNN and VisionMLP, called on every input of the bounded    *)
(* sets.                                                                   *)
(***************************************************************************)
Pending(fn, self, data) == [op |-> "call", fn |-> fn, self |-> self, data |-> data]

InitModules ==
    /\ networks = NoNetworks
    /\ made = Done("none", <<>>, <<>>)
    /\ last \in {Pending("CNN", m, ObsTensor("pixels/view_0")) : m \in CNNModules}
                \cup {Pending("VisionMLP", m, d) : m \in VisionMLPModules, d \in VisionData}

CallCNN ==
    /\ last.op = "call"
    /\ last.fn = "CNN"
    /\ last' = [op |-> "return", fn |-> "CNN", self |-> last.self, data |-> last.data,
                result |-> CNN(last.self, last.data)]
    /\ UNCHANGED <<networks, made>>

CallVisionMLP ==
    /\ last.op = "call"
    /\ last.fn = "VisionMLP"
    /\ last' = [op |-> "return", fn |-> "VisionMLP", self |-> last.self,
                data |-> last.data, result |-> VisionMLP(last.self, last.data)]
    /\ UNCHANGED <<networks, made>>

NextModules == CallCNN \/ CallVisionMLP

SpecModules == InitModules /\ [][NextModules]_vars

(***************************************************************************)
(* The claims.                                                             *)
(***************************************************************************)
IsNetworkFactoryCall == last.op \in {"make_vision_policy_network", "make_vision_value_network"}

IsApplyCall == last.op \in {"policy_network.apply", "value_network.apply"}

IsInitCall == last.op \in {"policy_network.init", "value_network.init"}

CallNames(calls) == [i \in 1..Len(calls) |-> calls[i].fn]

\* C1: make_vision_policy_network and make_vision_value_network raise ValueError
\* for every network_type other than exactly 'cnn', before a module, a dummy
\* observation or a FeedForwardNetwork is built and without returning a network;
\* for 'cnn' they raise nothing and return the network.
C1_UnsupportedNetworkTypeRejected ==
    IsNetworkFactoryCall =>
        IF last.args.network_type = "cnn"
        THEN /\ last.result.error = ""
             /\ last.result.network.built
             /\ last.result.built = <<"module", "dummy_obs", "FeedForwardNetwork">>
        ELSE /\ last.result.error = "ValueError"
             /\ last.result.built = <<>>
             /\ ~last.result.network.built
             /\ networks = NoNetworks

C1_Witness ==
    /\ last.op = "make_vision_value_network"
    /\ last.args.network_type = "CNN"
    /\ last.result.error = "ValueError"
    /\ last.args.observation_size # <<>>

\* C2: an apply called with an observation that is not a FrozenDict fails the
\* assertion before preprocess_observations_fn or the module's apply is called,
\* for the policy network and for the value network.
C2_NonFrozenDictFailsAssertion ==
    (IsApplyCall /\ last.args[3].type # "FrozenDict") =>
        /\ last.result.error = "AssertionError"
        /\ last.result.calls = <<>>

C2_Witness ==
    /\ last.op = "value_network.apply"
    /\ last.args[3].type = "dict"
    /\ HasKey(last.args[3].items, "state")
    /\ last.result.error = "AssertionError"

\* The dummy observation init must run the module on: for every key of
\* observation_size, in order, zeros of shape (1,) + shape.
IsDummyFor(dummy, observation_size) ==
    /\ dummy.type = "dict"
    /\ Len(dummy.items) = Len(observation_size)
    /\ \A i \in 1..Len(observation_size) :
          /\ dummy.items[i].key = observation_size[i].key
          /\ dummy.items[i].val.data = "zeros"
          /\ dummy.items[i].val.ops = <<>>
          /\ dummy.items[i].val.shape = <<1>> \o observation_size[i].val

IsInitApplyPair(net) ==
    /\ net.built
    /\ net.init_params = <<"key">>
    /\ net.apply_params = <<"processor_params", "policy_params", "obs">>
    /\ IsDummyFor(Obs("dict", net.dummy_obs), made.args.observation_size)

\* C3: every network built is an init/apply pair; init(key) takes the key alone
\* and initialises the module on a dummy observation holding zeros of shape
\* (1,) + shape for exactly the keys of observation_size; apply takes
\* (processor_params, policy_params, observation). make_vision_ppo_networks
\* returns such a pair for the policy, one for the value, and the action
\* distribution, and never raises the unsupported-type error.
C3_InitApplyPairs ==
    /\ networks.policy_network.built => IsInitApplyPair(networks.policy_network)
    /\ networks.value_network.built => IsInitApplyPair(networks.value_network)
    /\ IsInitCall =>
          /\ CallNames(last.result.calls) = <<"module.init">>
          /\ last.result.calls[1].args[1] = last.args[1]
          /\ IsDummyFor(last.result.calls[1].args[2], made.args.observation_size)
          /\ last.result.out.variables = last.args[1]
    /\ last.op = "make_vision_ppo_networks" =>
          /\ last.result.error = ""
          /\ last.result.networks.policy_network.built
          /\ ~last.result.networks.policy_network.squeeze
          /\ last.result.networks.value_network.built
          /\ last.result.networks.value_network.squeeze
          /\ last.result.networks.parametric_action_distribution.name
                = "NormalTanhDistribution"
          /\ networks = last.result.networks

C3_Witness ==
    /\ last.op = "value_network.init"
    /\ made.op = "make_vision_ppo_networks"
    /\ Len(made.args.observation_size) = 2
    /\ made.args.observation_size[1].key = "state"
    /\ last.result.error = ""

\* What the policy network of the networks held returns on the arguments of
\* the last apply.
PolicyOutputOnLastArgs ==
    network_apply(networks.policy_network, last.args[1], last.args[2], last.args[3]).out

\* C4: in make_vision_ppo_networks the policy head's layer sizes are
\* policy_hidden_layer_sizes followed by the distribution's param_size (for
\* event_size = action_size) and the value head's are value_hidden_layer_sizes
\* followed by 1; the value apply removes that trailing axis of size 1, so the
\* value output has one dimension fewer than the policy output.
C4_HeadSizesAndValueSqueeze ==
    made.op = "make_vision_ppo_networks" =>
        /\ networks.parametric_action_distribution.event_size = made.args.action_size
        /\ networks.policy_network.module.layer_sizes
              = made.args.policy_hidden_layer_sizes
                \o <<networks.parametric_action_distribution.param_size>>
        /\ networks.value_network.module.layer_sizes
              = made.args.value_hidden_layer_sizes \o <<1>>
        /\ (last.op = "policy_network.apply" /\ last.result.error = "") =>
              /\ last.result.out.post = <<>>
              /\ last.result.out.shape[Len(last.result.out.shape)]
                    = networks.parametric_action_distribution.param_size
        /\ (last.op = "value_network.apply" /\ last.result.error = "") =>
              /\ last.result.out.post = <<"squeeze">>
              /\ Len(last.result.out.shape) = Len(PolicyOutputOnLastArgs.shape) - 1
              /\ last.result.out.shape
                    = SubSeq(PolicyOutputOnLastArgs.shape, 1,
                             Len(PolicyOutputOnLastArgs.shape) - 1)

C4_Witness ==
    /\ made.op = "make_vision_ppo_networks"
    /\ made.args.action_size = 3
    /\ made.args.policy_hidden_layer_sizes # made.args.value_hidden_layer_sizes
    /\ last.op = "value_network.apply"
    /\ last.result.error = ""
    /\ last.result.out.shape = <<2>>
    /\ HasKey(last.args[3].items, "pixels/view_0")

\* The output of the policy network held on the arguments of the last policy call.
LogitsOfLastPolicyCall ==
    network_apply(networks.policy_network, last.args.params[1], last.args.params[2],
                  last.args.observations).out

IsRawActionOfLastPolicyCall(raw) ==
    /\ raw.fn = "sample_no_postprocessing"
    /\ raw.logits = <<LogitsOfLastPolicyCall>>
    /\ raw.key = last.args.key_sample

\* C5: a policy that is not deterministic calls, in this order,
\* policy_network.apply(*params, observations), sample_no_postprocessing(logits,
\* key_sample), log_prob(logits, raw_actions) and postprocess(raw_actions); the
\* log-probability is that of the raw actions, the action returned is the
\* post-processed one, and the extras hold exactly 'log_prob' and 'raw_action'.
C5_SamplingPolicyOrder ==
    (last.op = "policy" /\ ~last.args.deterministic /\ last.result.error = "") =>
        /\ CallNames(last.result.calls)
              = <<"policy_network.apply", "sample_no_postprocessing", "log_prob",
                  "postprocess">>
        /\ last.result.calls[1].args
              = <<last.args.params[1], last.args.params[2], last.args.observations>>
        /\ last.result.calls[2].args[1] = LogitsOfLastPolicyCall
        /\ last.result.calls[2].args[2] = last.args.key_sample
        /\ last.result.calls[3].args[1] = LogitsOfLastPolicyCall
        /\ IsRawActionOfLastPolicyCall(last.result.calls[3].args[2])
        /\ IsRawActionOfLastPolicyCall(last.result.calls[4].args[1])
        /\ last.result.action.fn = "postprocess"
        /\ Len(last.result.action.raw) = 1
        /\ IsRawActionOfLastPolicyCall(last.result.action.raw[1])
        /\ DictKeys(last.result.extras) = <<"log_prob", "raw_action">>
        /\ last.result.extras[1].val.fn = "log_prob"
        /\ last.result.extras[1].val.logits = <<LogitsOfLastPolicyCall>>
        /\ Len(last.result.extras[1].val.raw) = 1
        /\ IsRawActionOfLastPolicyCall(last.result.extras[1].val.raw[1])
        /\ IsRawActionOfLastPolicyCall(last.result.extras[2].val)

C5_Witness ==
    /\ last.op = "policy"
    /\ ~last.args.deterministic
    /\ last.result.error = ""
    /\ last.args.key_sample = "key_1"
    /\ Len(last.result.extras) = 2
    /\ Len(last.args.observations.items) = 2

\* The calls of preprocess_observations_fn among calls.
PreprocessCallsIn(calls) ==
    SelectSeq(calls, LAMBDA c : c.fn = "preprocess_observations_fn")

NetworkOfLastCall ==
    IF last.op \in {"policy_network.apply", "policy_network.init"}
    THEN networks.policy_network ELSE networks.value_network

\* The observation the module was applied to equals obs outside 'state'.
SameOutsideState(passed, obs) ==
    /\ DictKeys(passed.items) = DictKeys(obs.items)
    /\ \A i \in 1..Len(obs.items) :
          obs.items[i].key # "state" => passed.items[i] = obs.items[i]

\* The 'state' entry the module was applied to is the preprocessed one.
StateWasPreprocessed(passed, obs, fn, processor_params) ==
    \A i \in 1..Len(obs.items) :
        obs.items[i].key = "state" =>
            /\ passed.items[i].val.data = obs.items[i].val.data
            /\ IF fn = "identity_observation_preprocessor"
               THEN passed.items[i].val.ops = <<>>
               ELSE /\ Len(passed.items[i].val.ops) = 1
                    /\ passed.items[i].val.ops[1].op = "preprocess"
                    /\ passed.items[i].val.ops[1].fn = fn
                    /\ passed.items[i].val.ops[1].p = processor_params

\* C8: in the apply of both networks preprocess_observations_fn is called exactly
\* once, on the 'state' entry with processor_params, when the observation has a
\* 'state' key, and not at all when it has none; every other entry reaches the
\* module unchanged, the keys are unchanged, and the caller's observation is not
\* modified. init never calls preprocess_observations_fn.
C8_PreprocessOnlyState ==
    /\ (IsApplyCall /\ last.args[3].type = "FrozenDict") =>
          /\ Len(PreprocessCallsIn(last.result.calls))
                = (IF HasKey(last.args[3].items, "state") THEN 1 ELSE 0)
          /\ HasKey(last.args[3].items, "state") =>
                /\ last.result.calls[1].fn = "preprocess_observations_fn"
                /\ last.result.calls[1].args
                      = <<Get(last.args[3].items, "state"), last.args[1]>>
          /\ last.result.calls[Len(last.result.calls)].fn = "module.apply"
          /\ SameOutsideState(last.result.calls[Len(last.result.calls)].args[2],
                              last.args[3])
          /\ StateWasPreprocessed(last.result.calls[Len(last.result.calls)].args[2],
                                  last.args[3],
                                  NetworkOfLastCall.preprocess_observations_fn,
                                  last.args[1])
          /\ last.result.caller_obs = last.args[3]
    /\ IsInitCall => PreprocessCallsIn(last.result.calls) = <<>>

C8_Witness ==
    /\ last.op = "value_network.apply"
    /\ last.args[3].type = "FrozenDict"
    /\ Len(last.args[3].items) = 2
    /\ last.args[3].items[1].key = "state"
    /\ last.args[3].items[2].key = "pixels/view_0"
    /\ last.args[1] = "processor_params_1"
    /\ networks.value_network.preprocess_observations_fn = "normalize"
    /\ last.result.error = ""

\* C9: a deterministic policy returns the mode of the logits and empty extras,
\* calls none of sample_no_postprocessing, log_prob and postprocess, and returns
\* the same action for every key_sample.
C9_DeterministicPolicy ==
    (last.op = "policy" /\ last.args.deterministic /\ last.result.error = "") =>
        /\ last.result.action.fn = "mode"
        /\ last.result.action.logits = <<LogitsOfLastPolicyCall>>
        /\ last.result.action.key = ""
        /\ last.result.extras = <<>>
        /\ CallNames(last.result.calls) = <<"policy_network.apply", "mode">>
        /\ \A key \in PRNGKeys :
              policy(networks, last.args.params, TRUE, last.args.observations, key).action
                 = last.result.action

C9_Witness ==
    /\ last.op = "policy"
    /\ last.args.deterministic
    /\ last.args.key_sample = "key_1"
    /\ last.result.error = ""
    /\ last.result.action.fn = "mode"

IsVisionMLPReturn == last.op = "return" /\ last.fn = "VisionMLP"

IsCNNReturn == last.op = "return" /\ last.fn = "CNN"

\* The entries of data whose key starts with 'pixels/', in the order of data.
PixelEntries(data) ==
    SelectSeq(data, LAMBDA e : Len(e.key) >= 7 /\ SubSeq(e.key, 1, 7) = "pixels/")

\* The entries of data that are pixel entries or the entry 'state'.
NamedEntries(data) ==
    SelectSeq(data, LAMBDA e : e.key = "state"
                               \/ (Len(e.key) >= 7 /\ SubSeq(e.key, 1, 7) = "pixels/"))

WentThroughCNN(x) == \E j \in 1..Len(x.ops) : x.ops[j].op = "conv"

\* C6: VisionMLP routes the entries by name: exactly the entries whose key
\* starts with 'pixels/' go through the CNN; the entry 'state', when present,
\* bypasses the CNN and is the last block of the concatenation, after all pixel
\* features; the other entries have no influence on the output; without 'state'
\* the MLP input is the pixel features alone.
C6_RoutingByName ==
    IsVisionMLPReturn =>
        /\ Len(last.result.parts)
              = Len(PixelEntries(last.data))
                + (IF HasKey(last.data, "state") THEN 1 ELSE 0)
        /\ (last.result.error # "") = (NamedEntries(last.data) = <<>>)
        /\ \A i \in 1..Len(PixelEntries(last.data)) :
              /\ last.result.parts[i].data = PixelEntries(last.data)[i].val.data
              /\ WentThroughCNN(last.result.parts[i])
        /\ HasKey(last.data, "state") =>
              last.result.parts[Len(last.result.parts)] = Get(last.data, "state")
        /\ last.result = VisionMLP(last.self, NamedEntries(last.data))

C6_Witness ==
    /\ IsVisionMLPReturn
    /\ Len(last.data) = 3
    /\ last.data[1].key = "state"
    /\ last.data[2].key = "pixels"
    /\ last.data[3].key = "pixels/view_1"
    /\ Len(last.result.parts) = 2
    /\ last.result.parts[2].data = "state"

OpNames(x) == [j \in 1..Len(x.ops) |-> x.ops[j].op]

ConvStackThenMean ==
    <<"conv", "activation", "conv", "activation", "conv", "activation", "mean">>

\* C7: for every pixel entry the steps run in a fixed order: the per-channel
\* normalisation first, and only when normalise_channels is true; then the
\* convolutions, each followed by one activation; then the spatial mean; then the
\* concatenation of all features and the MLP head, once, on the concatenated
\* vector.
C7_StepOrder ==
    (IsVisionMLPReturn /\ last.result.error = "") =>
        /\ \A i \in 1..Len(PixelEntries(last.data)) :
              /\ OpNames(last.result.parts[i])
                    = (IF last.self.normalise_channels
                       THEN <<"layernorm_per_chan">> ELSE <<>>) \o ConvStackThenMean
              /\ Len(last.result.parts[i].shape) = 2
        /\ Len(last.result.mlp) = 1
        /\ last.result.mlp[1].layer_sizes = last.self.layer_sizes
        /\ last.result.input_size
              = SumSeq([i \in 1..Len(last.result.parts) |->
                           last.result.parts[i].shape[Len(last.result.parts[i].shape)]])
        /\ last.result.shape
              = <<2, last.self.layer_sizes[Len(last.self.layer_sizes)]>>

C7_Witness ==
    /\ IsVisionMLPReturn
    /\ last.self.normalise_channels
    /\ Len(PixelEntries(last.data)) = 2
    /\ HasKey(last.data, "state")
    /\ last.result.error = ""
    /\ last.result.input_size = 132

\* The number of layers zip yields: the length of the shortest sequence.
Shortest(self) ==
    CHOOSE n \in {Len(self.num_filters), Len(self.kernel_sizes), Len(self.strides)} :
        /\ n <= Len(self.num_filters)
        /\ n <= Len(self.kernel_sizes)
        /\ n <= Len(self.strides)

\* The operations CNN added to its input.
AddedOps(ret) == SubSeq(ret.result.ops, Len(ret.data.ops) + 1, Len(ret.result.ops))

ConvsOf(x) == SelectSeq(x.ops, LAMBDA o : o.op = "conv")

ActivationsOf(x) == SelectSeq(x.ops, LAMBDA o : o.op = "activation")

\* C10: CNN applies exactly min(len(num_filters), len(kernel_sizes),
\* len(strides)) convolutions, layer i with num_filters[i], kernel_sizes[i] and
\* strides[i]; surplus entries are ignored, and with no layer the input is
\* returned unchanged. The stack VisionMLP builds has 3 layers of 32, 64 and 64
\* filters, no bias and relu, whatever the activation of VisionMLP.
C10_ZipOfLayers ==
    /\ IsCNNReturn =>
          /\ Len(AddedOps(last)) = 2 * Shortest(last.self)
          /\ last.result.data = last.data.data
          /\ Shortest(last.self) = 0 => last.result = last.data
          /\ \A i \in 1..Shortest(last.self) :
                /\ AddedOps(last)[2 * i - 1].op = "conv"
                /\ AddedOps(last)[2 * i - 1].feat = last.self.num_filters[i]
                /\ AddedOps(last)[2 * i - 1].kernel = last.self.kernel_sizes[i]
                /\ AddedOps(last)[2 * i - 1].stride = last.self.strides[i]
                /\ AddedOps(last)[2 * i - 1].fn
                      = (IF last.self.use_bias THEN "bias" ELSE "no_bias")
                /\ AddedOps(last)[2 * i].op = "activation"
                /\ AddedOps(last)[2 * i].fn = last.self.activation
    /\ IsVisionMLPReturn =>
          \A i \in 1..Len(PixelEntries(last.data)) :
              /\ [j \in 1..Len(ConvsOf(last.result.parts[i])) |->
                     ConvsOf(last.result.parts[i])[j].feat] = <<32, 64, 64>>
              /\ \A j \in 1..Len(ConvsOf(last.result.parts[i])) :
                     ConvsOf(last.result.parts[i])[j].fn = "no_bias"
              /\ Len(ActivationsOf(last.result.parts[i])) = 3
              /\ \A j \in 1..Len(ActivationsOf(last.result.parts[i])) :
                     ActivationsOf(last.result.parts[i])[j].fn = "relu"

C10_Witness ==
    /\ IsCNNReturn
    /\ Len(last.self.num_filters) = 3
    /\ Len(last.self.kernel_sizes) = 1
    /\ Len(last.self.strides) = 2
    /\ last.self.activation = "swish"
    /\ Len(last.result.ops) = 2

====
